---- MODULE Spec2Model ----
(***************************************************************************)
(* A model of the workflow execution engine:                               *)
(*   - CodeExecutor (src/Tools/code_executor.py): the kernels registry,    *)
(*     start_kernel / stop_kernel / execute_code as asyncio coroutines     *)
(*     that are suspended at each await on the thread offload;             *)
(*   - the two with_context decorators (code_executor.py and               *)
(*     math_operations.py);                                                *)
(*   - WorkflowManager.execute_workflow and its two dispatch paths         *)
(*     (src/workflow_manager.py).                                          *)
(***************************************************************************)
EXTENDS Integers, Sequences, FiniteSets, TLC

\* ------------------------------------------------------------------ bounds

\* Coroutines that may call into the one CodeExecutor concurrently.
NumCalls == 2
\* Kernel ids "k1" .. "k<NumIds>" (uuid4()[:8] values and caller-given ids).
NumIds == 4
\* Worker processes that may be alive at once.
NumProcs == 4
\* Clock ticks per second: the resolution of the model's clock.
TicksPerSecond == 2
\* The largest timeout argument of execute_code, in ticks.
MaxTimeout == 5
\* The clock of one submission is followed up to this many ticks.
MaxElapsed == 8
\* The output list of one submission is followed up to this length.
MaxOutput == 2

\* CodeExecutor(max_kernels=3), as WorkflowManager constructs it.
max_kernels == 3
\* kc.get_iopub_msg(timeout=1): the per-poll wait, in seconds.
PollSeconds == 1

PollTicks == PollSeconds * TicksPerSecond

Calls == 1 .. NumCalls
KernelIds == { "k" \o ToString(i) : i \in 1 .. NumIds }
Procs == 1 .. NumProcs

\* Python's None where a kernel id is expected.
None == "None"

\* ------------------------------------------------------------------- texts
\* A piece of text, or Python's None where a text is expected.  The repr of
\* a dict is kept as its items (key -> the repr of the value).
Raw(s) == [form |-> "raw", s |-> s, items |-> << >>]
DictText(items) == [form |-> "dict", s |-> "", items |-> items]
NoneText == [form |-> "none", s |-> "", items |-> << >>]

\* not item or item.isspace()
BlankStrings == {"", " ", "\n"}
IsBlank(t) == t.form = "raw" /\ t.s \in BlankStrings

\* `if error:` -- None and the empty string are falsy.
Truthy(t) == t /= NoneText /\ t /= Raw("")

VARIABLES
    kernels,    \* CodeExecutor.kernels: kernel_id -> km (the worker process)
    procs,      \* worker processes that were started and are still alive
    calls,      \* per coroutine: the call it is in and where it is suspended
    run,        \* one execute_workflow call: its tasks, context and position
    fold,       \* one tool function taken down both dispatch paths
    executor,   \* CodeExecutor.executor, the thread pool: "open" | "shutdown"
    store,      \* the graph store: the Tool nodes, the Task nodes with the
                \* tools they use, the workflows with their CONTAINS
                \* relationships, and how the last call on it returned
    runs        \* execute_workflow calls that run concurrently on the pool

vars == <<kernels, procs, calls, run, fold, executor, store, runs>>

\* ---------------------------------------------------------- CodeExecutor

\* What a call has returned: execute_code's tuple (output, execution_time,
\* kernel_id); start_kernel's return value is kept in kernel_id.
NoReturn == [output |-> NoneText, execution_time |-> 0, kernel_id |-> None]

\* A coroutine that is in no call.
\*   pc: idle | start_await | stop_await | poll | done | raised
\*   exit: how execute_code left its polling loop, and which way
\*         start_kernel and stop_kernel returned
\*   errors: the texts of the error events read for the submission
\*   foreign: whether a message of another submission was read
\*   code, auto_format: the arguments of execute_code; sent: the source
\*         that kc.execute was given
\*   todo: the ids cleanup has still to stop; began: the registry as
\*         cleanup found it
IdleCall ==
    [op |-> "idle", pc |-> "idle", kernel_id |-> None, km |-> 0,
     timeout |-> 0, elapsed |-> 0, output |-> << >>, error |-> NoneText,
     errors |-> {}, exit |-> "none", ret |-> NoReturn, foreign |-> FALSE,
     code |-> "", auto_format |-> FALSE, sent |-> "",
     todo |-> {}, began |-> << >>]


\* len(self.kernels) >= self.max_kernels
PoolFull == Cardinality(DOMAIN kernels) >= max_kernels

\* The execute_workflow calls that run concurrently.
Runs == {1, 2}

\* Ids and processes held by a suspended call are not handed out again.
HeldIds ==
    { calls[c].kernel_id : c \in Calls } \cup { runs[r].kernel_id : r \in Runs }
HeldProcs == { calls[c].km : c \in Calls } \cup { runs[r].km : r \in Runs }

\* str(uuid.uuid4())[:8]: an id that is in use nowhere.
FreshIds == KernelIds \ (DOMAIN kernels \cup HeldIds)

\* KernelManager(kernel_name='python3'): a process that does not exist yet.
FreshProcs == Procs \ (procs \cup HeldProcs)

\* Which fresh id or process is drawn makes no difference (they are opaque
\* names), so the least one stands for all of them.
IdIndex(id) == CHOOSE i \in 1 .. NumIds : id = "k" \o ToString(i)
LeastFreshId ==
    CHOOSE id \in FreshIds : \A o \in FreshIds : IdIndex(id) <= IdIndex(o)
LeastFreshProc == CHOOSE p \in FreshProcs : \A o \in FreshProcs : p <= o

\* self.kernels[kernel_id] = {'km': km, 'kc': kc, ...}
Register(ks, id, km) ==
    [k \in DOMAIN ks \cup {id} |-> IF k = id THEN km ELSE ks[k]]

\* A faulty variant of Unregister: the whole registry is emptied.
UnregisterAll(ks, id) == << >>

\* del self.kernels[kernel_id]
Unregister(ks, id) == [k \in DOMAIN ks \ {id} |-> ks[k]]

\* ---- start_kernel

\* start_kernel up to its await: the capacity check, the id, the
\* KernelManager.  `arg` is the kernel_id argument (None: draw a uuid) and
\* `st` the call as its caller set it up.  With the pool full the call
\* returns None at once; with the thread pool shut down run_in_executor
\* raises RuntimeError before anything is awaited.
StartKernelBegin(c, st, arg, id, km) ==
    IF PoolFull
    THEN calls' = [calls EXCEPT ![c] =
            [IdleCall EXCEPT !.op = st.op, !.pc = "done", !.exit = "full"]]
    ELSE IF executor = "shutdown"
    THEN calls' = [calls EXCEPT ![c] =
            [IdleCall EXCEPT !.op = st.op, !.pc = "raised",
                             !.exit = "shutdown"]]
    ELSE /\ id = (IF arg = None THEN LeastFreshId ELSE arg)
         /\ km = LeastFreshProc
         /\ calls' = [calls EXCEPT ![c] =
               [st EXCEPT !.pc = "start_await", !.kernel_id = id, !.km = km]]

\* A call of start_kernel(kernel_id).
StartKernel(c, arg) ==
    /\ calls[c].pc = "idle"
    /\ (PoolFull \/ (FreshIds /= {} /\ FreshProcs /= {}))
    /\ \E id \in KernelIds, km \in Procs :
          StartKernelBegin(c, [IdleCall EXCEPT !.op = "start_kernel"],
                           arg, id, km)
    /\ UNCHANGED <<kernels, procs, run, fold, executor, store, runs>>

\* black.format_str on the sources a submission may carry: an unformatted
\* one, a formatted one (left as it is), and one black cannot parse, for
\* which format_str raises.
BlackFormats ==
    [code \in {"x=1", "x = 1\n"} |-> "x = 1\n"]

Sources == DOMAIN BlackFormats \cup {"x = ("}

\* A faulty variant of FormatCode: when black fails nothing is left of the
\* source.
FormatCodeLosesSource(code) ==
    IF code \in DOMAIN BlackFormats THEN BlackFormats[code] ELSE ""

\* format_code: black's result, or the code as it came when black raises.
FormatCode(code) ==
    IF code \in DOMAIN BlackFormats THEN BlackFormats[code] ELSE code

\* if auto_format: code = self.format_code(code); msg_id = kc.execute(code);
\* output = []; error = None; then the loop.
Submitted(st) ==
    [st EXCEPT !.pc = "poll", !.elapsed = 0, !.output = << >>,
               !.error = NoneText,
               !.sent = IF st.auto_format THEN FormatCode(st.code)
                        ELSE st.code]

\* The await of start_kernel completes: km.start_kernel ran in the thread
\* pool, the worker is alive; it is registered and its id returned.  Inside
\* execute_code the call goes on to submit the code.
StartKernelResume(c) ==
    /\ calls[c].pc = "start_await"
    /\ procs' = procs \cup {calls[c].km}
    /\ kernels' = Register(kernels, calls[c].kernel_id, calls[c].km)
    /\ calls' = [calls EXCEPT ![c] =
          IF @.op = "execute_code"
          THEN Submitted(@)
          ELSE [IdleCall EXCEPT !.op = "start_kernel", !.pc = "done",
                   !.ret = [NoReturn EXCEPT !.kernel_id = calls[c].kernel_id]]]
    /\ UNCHANGED <<run, fold, executor, store, runs>>

\* km.start_kernel raises in the thread pool: the exception leaves
\* start_kernel (and execute_code) uncaught; nothing is registered.
StartKernelFails(c) ==
    /\ calls[c].pc = "start_await"
    /\ calls' = [calls EXCEPT ![c] =
          [IdleCall EXCEPT !.op = calls[c].op, !.pc = "raised"]]
    /\ UNCHANGED <<kernels, procs, run, fold, executor, store, runs>>

\* ---- stop_kernel

\* stop_kernel of a registered id up to its await; with the thread pool
\* shut down run_in_executor raises RuntimeError and the entry stays.
StopBegin(st, id) ==
    IF executor = "shutdown"
    THEN [IdleCall EXCEPT !.op = st.op, !.pc = "raised", !.exit = "shutdown"]
    ELSE [st EXCEPT !.pc = "stop_await", !.kernel_id = id, !.km = kernels[id]]

\* stop_kernel(kernel_id) up to its await: unknown ids return at once.
StopKernel(c, id) ==
    /\ calls[c].pc = "idle"
    /\ calls' = [calls EXCEPT ![c] =
          IF id \notin DOMAIN kernels
          THEN [IdleCall EXCEPT !.op = "stop_kernel", !.pc = "done",
                                !.exit = "unknown"]
          ELSE StopBegin([IdleCall EXCEPT !.op = "stop_kernel"], id)]
    /\ UNCHANGED <<kernels, procs, run, fold, executor, store, runs>>

\* The await of stop_kernel completes: km.shutdown_kernel ran, the process
\* is gone.  self.kernels[kernel_id]['start_time'] raises KeyError when the
\* entry was removed meanwhile; otherwise the entry is deleted.
StopKernelResume(c) ==
    /\ calls[c].pc = "stop_await"
    /\ calls[c].op = "stop_kernel"
    /\ procs' = procs \ {calls[c].km}
    /\ IF calls[c].kernel_id \in DOMAIN kernels
       THEN /\ kernels' = Unregister(kernels, calls[c].kernel_id)
            /\ calls' = [calls EXCEPT ![c] =
                  [IdleCall EXCEPT !.op = "stop_kernel", !.pc = "done",
                                   !.exit = "removed"]]
       ELSE /\ kernels' = kernels
            /\ calls' = [calls EXCEPT ![c] =
                  [IdleCall EXCEPT !.op = "stop_kernel", !.pc = "raised"]]
    /\ UNCHANGED <<run, fold, executor, store, runs>>

\* ---- cleanup

\* cleanup has left its loop: self.executor.shutdown() and the return.
CleanupDone(st) == [st EXCEPT !.pc = "done", !.kernel_id = None, !.km = 0]

\* A call of cleanup(): the ids are listed as the registry holds them now,
\* and stop_kernel of the first one runs up to its await.  With nothing
\* registered the thread pool is shut down at once.
Cleanup(c) ==
    /\ calls[c].pc = "idle"
    /\ LET st == [IdleCall EXCEPT !.op = "cleanup", !.began = kernels]
       IN  IF DOMAIN kernels = {}
           THEN /\ calls' = [calls EXCEPT ![c] = CleanupDone(st)]
                /\ executor' = "shutdown"
           ELSE /\ \E id \in DOMAIN kernels :
                      calls' = [calls EXCEPT ![c] =
                         StopBegin([st EXCEPT !.todo = DOMAIN kernels \ {id}],
                                   id)]
                /\ executor' = executor
    /\ UNCHANGED <<kernels, procs, run, fold, store, runs>>

\* A faulty variant of CleanupResume: cleanup is content with the first
\* worker it stopped.
CleanupStopsOneWorker(c) ==
    /\ calls[c].pc = "stop_await"
    /\ calls[c].op = "cleanup"
    /\ procs' = procs \ {calls[c].km}
    /\ kernels' = Unregister(kernels, calls[c].kernel_id)
    /\ calls' = [calls EXCEPT ![c] = CleanupDone([@ EXCEPT !.todo = {}])]
    /\ executor' = "shutdown"
    /\ UNCHANGED <<run, fold, store, runs>>

\* The await of a stop_kernel inside cleanup completes.  The entry is
\* deleted (KeyError leaves cleanup when it is gone already); listed ids
\* that are registered no more return from stop_kernel at once, and the
\* next one that is registered is stopped up to its await.  After the last
\* the thread pool is shut down.
CleanupResume(c) ==
    /\ calls[c].pc = "stop_await"
    /\ calls[c].op = "cleanup"
    /\ procs' = procs \ {calls[c].km}
    /\ IF calls[c].kernel_id \in DOMAIN kernels
       THEN /\ kernels' = Unregister(kernels, calls[c].kernel_id)
            /\ LET rest == calls[c].todo \cap DOMAIN kernels'
               IN  IF rest = {}
                   THEN /\ calls' = [calls EXCEPT ![c] =
                              CleanupDone([@ EXCEPT !.todo = {}])]
                        /\ executor' = "shutdown"
                   ELSE /\ \E id \in rest :
                              calls' = [calls EXCEPT ![c] =
                                 StopBegin([@ EXCEPT !.todo = rest \ {id}],
                                           id)]
                        /\ executor' = executor
       ELSE /\ kernels' = kernels
            /\ executor' = executor
            /\ calls' = [calls EXCEPT ![c] =
                  [IdleCall EXCEPT !.op = "cleanup", !.pc = "raised"]]
    /\ UNCHANGED <<run, fold, store, runs>>

\* ---- execute_code

\* A message on the worker's iopub channel, as execute_code reads it:
\* whether its parent_header carries this submission's msg_id, its
\* msg_type, and its content (text, or ename and evalue, or
\* execution_state).
Msg(own, type, text, ename, evalue, state) ==
    [own |-> own, msg_type |-> type, text |-> text, ename |-> ename,
     evalue |-> evalue, execution_state |-> state]

StreamMsg(own, text) == Msg(own, "stream", text, "", "", "")
ResultMsg(own, text) == Msg(own, "execute_result", text, "", "", "")
ErrorMsg(own, ename, evalue) == Msg(own, "error", NoneText, ename, evalue, "")
StatusMsg(own, state) == Msg(own, "status", NoneText, "", "", state)

\* A message without a parent_header: msg['parent_header'] raises KeyError.
MalformedMsg == Msg(FALSE, "malformed", NoneText, "", "", "")

\* str(KeyError('parent_header'))
KeyErrorText == Raw("'parent_header'")

\* The last non-empty output (the loop over reversed(output)).
RECURSIVE LastNonEmpty(_)
LastNonEmpty(output) ==
    IF output = << >> THEN NoneText
    ELSE IF ~IsBlank(output[Len(output)]) THEN output[Len(output)]
    ELSE LastNonEmpty(SubSeq(output, 1, Len(output) - 1))

\* A faulty variant of Finish: output that was collected is returned even
\* when there is an error.
FinishPrefersOutput(st, exit) ==
    [st EXCEPT !.pc = "done", !.exit = exit, !.kernel_id = None, !.km = 0,
               !.ret = [output |-> IF LastNonEmpty(st.output) /= NoneText
                                   THEN LastNonEmpty(st.output)
                                   ELSE st.error,
                        execution_time |-> st.elapsed,
                        kernel_id |-> st.kernel_id]]

\* The return of execute_code once the loop is left: the error if there is
\* one, else the last non-empty output.
Finish(st, exit) ==
    [st EXCEPT !.pc = "done", !.exit = exit, !.kernel_id = None, !.km = 0,
               !.ret = [output |-> IF Truthy(st.error) THEN st.error
                                   ELSE LastNonEmpty(st.output),
                        execution_time |-> st.elapsed,
                        kernel_id |-> st.kernel_id]]

\* A faulty variant of HandleMsg: the parent_header is not looked at.
HandleMsgOfAnySubmission(st, msg) ==
    IF msg.msg_type = "malformed"
    THEN Finish([st EXCEPT !.error = KeyErrorText], "malformed")
    ELSE IF msg.msg_type \in {"stream", "execute_result"}
         THEN [st EXCEPT !.output = Append(@, msg.text),
                         !.foreign = @ \/ ~msg.own]
    ELSE IF msg.msg_type = "error"
         THEN [st EXCEPT !.error = Raw(msg.ename \o ": " \o msg.evalue),
                         !.errors = @ \cup {Raw(msg.ename \o ": " \o msg.evalue)},
                         !.foreign = @ \/ ~msg.own]
    ELSE IF msg.msg_type = "status" /\ msg.execution_state = "idle"
         THEN Finish([st EXCEPT !.foreign = @ \/ ~msg.own], "idle")
    ELSE st

\* The body of the loop for one message: only messages of this submission
\* count; stream and execute_result append, error sets the error, an idle
\* status leaves the loop.  Reading the parent_header of a message that
\* has none raises KeyError, which the outer except turns into the error.
HandleMsg(st, msg) ==
    IF msg.msg_type = "malformed"
    THEN Finish([st EXCEPT !.error = KeyErrorText], "malformed")
    ELSE IF ~msg.own THEN [st EXCEPT !.foreign = TRUE]
    ELSE IF msg.msg_type \in {"stream", "execute_result"}
         THEN [st EXCEPT !.output = Append(@, msg.text)]
    ELSE IF msg.msg_type = "error"
         THEN [st EXCEPT !.error = Raw(msg.ename \o ": " \o msg.evalue),
                         !.errors = @ \cup {Raw(msg.ename \o ": " \o msg.evalue)}]
    ELSE IF msg.msg_type = "status" /\ msg.execution_state = "idle"
         THEN Finish(st, "idle")
    ELSE st

\* A call of execute_code(code, kernel_id, timeout, auto_format): with an
\* unregistered (or no) kernel_id it starts a kernel first, and returns
\* (None, 0, None) when that returns None; else it submits the code and
\* starts polling.
ExecuteCode(c, code, arg, T, auto_format) ==
    /\ calls[c].pc = "idle"
    /\ LET st == [IdleCall EXCEPT !.op = "execute_code", !.timeout = T,
                     !.code = code, !.auto_format = auto_format]
       IN  IF arg \notin DOMAIN kernels
           THEN /\ (PoolFull \/ (FreshIds /= {} /\ FreshProcs /= {}))
                /\ \E id \in KernelIds, km \in Procs :
                      StartKernelBegin(c, st, arg, id, km)
           ELSE calls' = [calls EXCEPT ![c] =
                   Submitted([st EXCEPT !.kernel_id = arg,
                                        !.km = kernels[arg]])]
    /\ UNCHANGED <<kernels, procs, run, fold, executor, store, runs>>

\* kc.execute(code) raises: the call stands before the try, so the
\* exception leaves execute_code.
SendRaised == [IdleCall EXCEPT !.op = "execute_code", !.pc = "raised",
                               !.exit = "send"]

\* execute_code on a registered worker whose channel fails on sending.
ExecuteCodeSendRaises(c, arg) ==
    /\ calls[c].pc = "idle"
    /\ arg \in DOMAIN kernels
    /\ calls' = [calls EXCEPT ![c] = SendRaised]
    /\ UNCHANGED <<kernels, procs, run, fold, executor, store, runs>>

\* execute_code started its worker, and the channel fails on sending.
StartKernelResumeSendRaises(c) ==
    /\ calls[c].pc = "start_await"
    /\ calls[c].op = "execute_code"
    /\ procs' = procs \cup {calls[c].km}
    /\ kernels' = Register(kernels, calls[c].kernel_id, calls[c].km)
    /\ calls' = [calls EXCEPT ![c] = SendRaised]
    /\ UNCHANGED <<run, fold, executor, store, runs>>

\* One poll returns a message after d ticks: it came before the poll's own
\* wait and before wait_for's timeout ran out.
PollMsg(c, msg, d) ==
    /\ calls[c].pc = "poll"
    /\ executor = "open"
    /\ d < PollTicks /\ d < calls[c].timeout
    /\ calls[c].elapsed + d <= MaxElapsed
    /\ Len(calls[c].output) < MaxOutput
    /\ calls' = [calls EXCEPT ![c] =
          HandleMsg([@ EXCEPT !.elapsed = @ + d], msg)]
    /\ UNCHANGED <<kernels, procs, run, fold, executor, store, runs>>

\* One poll comes back empty: get_iopub_msg raised Empty after its wait,
\* which wait_for's timeout did not cut short; the loop continues.
PollEmpty(c) ==
    /\ calls[c].pc = "poll"
    /\ executor = "open"
    /\ PollTicks <= calls[c].timeout
    /\ calls[c].elapsed + PollTicks <= MaxElapsed
    /\ calls' = [calls EXCEPT ![c] = [@ EXCEPT !.elapsed = @ + PollTicks]]
    /\ UNCHANGED <<kernels, procs, run, fold, executor, store, runs>>

\* A faulty variant of PollTimeout: the worker that did not answer in time
\* is killed and taken out of the registry.
PollTimeoutStopsWorker(c) ==
    /\ calls[c].pc = "poll"
    /\ executor = "open"
    /\ calls[c].timeout <= PollTicks
    /\ calls[c].elapsed + calls[c].timeout <= MaxElapsed
    /\ calls' = [calls EXCEPT ![c] =
          Finish([@ EXCEPT !.elapsed = @ + calls[c].timeout,
                           !.error = Raw("Execution timed out")], "timeout")]
    /\ kernels' = Unregister(kernels, calls[c].kernel_id)
    /\ procs' = procs \ {calls[c].km}
    /\ UNCHANGED <<run, fold, executor, store, runs>>

\* wait_for's timeout runs out before the poll returns: asyncio.TimeoutError.
PollTimeout(c) ==
    /\ calls[c].pc = "poll"
    /\ executor = "open"
    /\ calls[c].timeout <= PollTicks
    /\ calls[c].elapsed + calls[c].timeout <= MaxElapsed
    /\ calls' = [calls EXCEPT ![c] =
          Finish([@ EXCEPT !.elapsed = @ + calls[c].timeout,
                           !.error = Raw("Execution timed out")], "timeout")]
    /\ UNCHANGED <<kernels, procs, run, fold, executor, store, runs>>

\* run_in_executor on a thread pool that was shut down.
ShutdownText == "cannot schedule new futures after shutdown"

\* The poll raises something else (the channel fails, or the thread pool
\* was shut down, which run_in_executor answers with RuntimeError before
\* any wait): the outer except sets error = str(e).
PollRaises(c, e, d) ==
    /\ calls[c].pc = "poll"
    /\ executor = "shutdown" => (e = ShutdownText /\ d = 0)
    /\ d < PollTicks /\ d < calls[c].timeout
    /\ calls[c].elapsed + d <= MaxElapsed
    /\ calls' = [calls EXCEPT ![c] =
          Finish([@ EXCEPT !.elapsed = @ + d, !.error = Raw(e)], "exception")]
    /\ UNCHANGED <<kernels, procs, run, fold, executor, store, runs>>

\* The caller has its answer (or its exception); the coroutine is free for
\* the next call.
Forget(c) ==
    /\ calls[c].pc \in {"done", "raised"}
    /\ calls' = [calls EXCEPT ![c] = IdleCall]
    /\ UNCHANGED <<kernels, procs, run, fold, executor, store, runs>>

\* ------------------------------------------------------- values and tools

\* Python values a context holds and a tool function returns: ints, strs,
\* None, an object whose repr is no expression at all, and range(0, 3),
\* whose repr is an expression but no literal.
IntV(n) == [t |-> "int", v |-> n]
StrV(x) == [t |-> "str", v |-> x]
NoneV == [t |-> "none", v |-> 0]
ObjV == [t |-> "object", v |-> 0]
RangeV == [t |-> "range", v |-> 3]

\* repr() of such a value, as the token the Python lexer reads back.
ReprScalar(v) ==
    CASE v.t = "int" -> [tok |-> "number", n |-> v.v, x |-> ""]
      [] v.t = "str" -> [tok |-> "string", n |-> 0, x |-> v.v]
      [] v.t = "none" -> [tok |-> "name", n |-> 0, x |-> "None"]
      [] v.t = "range" -> [tok |-> "call", n |-> v.v, x |-> "range(0, 3)"]
      [] OTHER -> [tok |-> "junk", n |-> 0, x |-> "<object object at 0x7f>"]

\* str() of a dict: the f-string {context_variables}, and the repr the
\* worker sends as the text/plain of its execute_result.
ReprDict(d) == DictText([k \in DOMAIN d |-> ReprScalar(d[k])])

\* Python reading one token as an expression: numbers, strings and None are
\* literals; a call of a builtin is an expression that eval() runs; anything
\* else does not parse.
TokenIsLiteral(tk) ==
    tk.tok \in {"number", "string"} \/ (tk.tok = "name" /\ tk.x = "None")
Evaluates(tk) == TokenIsLiteral(tk) \/ tk.tok = "call"
EvalToken(tk) ==
    CASE tk.tok = "number" -> IntV(tk.n)
      [] tk.tok = "string" -> StrV(tk.x)
      [] tk.tok = "call" -> RangeV
      [] OTHER -> NoneV

\* An outcome of calling something: a value (here always a dict), or an
\* exception with its class name and message.
Returns(d) == [ok |-> TRUE, dict |-> d, ename |-> "", evalue |-> ""]
Raises(ename, evalue) ==
    [ok |-> FALSE, dict |-> << >>, ename |-> ename, evalue |-> evalue]

\* A faulty variant of Update: the mapping is replaced, not updated.
UpdateReplaces(ctx, d) == d

\* dict.update
Update(ctx, d) ==
    [k \in DOMAIN ctx \cup DOMAIN d |-> IF k \in DOMAIN d THEN d[k] ELSE ctx[k]]

\* context.get(name)
Get(ctx, name) == IF name \in DOMAIN ctx THEN ctx[name] ELSE NoneV

\* A tool function: its __name__, its parameter names in order, and what
\* its body does with them.
Func(name, params, body) == [name |-> name, params |-> params, body |-> body]

\* The return value of a function body, as (kind, scalar, dict):
\*   sum      return a + b                       (add_numbers)
\*   double   return x * 2                       (multiply_by_two)
\*   format   return {'formatted': f"...{x}"}    (format_result)
\*   nothing  no return
\*   seven    return 7, whatever the arguments are
\*   object   return object()
\*   range    return range(0, 3)
\*   stop     raise StopIteration
\*   report   return {'status': 'ValueError: bad'}
\*   handles  return {'handle': object()}
\* Arithmetic on None raises TypeError.
ArgsAreInts(f, kw) == \A i \in 1 .. Len(f.params) : kw[f.params[i]].t = "int"
RECURSIVE SumArgs(_, _, _)
SumArgs(f, kw, i) ==
    IF i > Len(f.params) THEN 0 ELSE kw[f.params[i]].v + SumArgs(f, kw, i + 1)
FormatOf(v) ==
    CASE v.t = "int" -> "The final result is: " \o ToString(v.v)
      [] v.t = "str" -> "The final result is: " \o v.v
      [] OTHER -> "The final result is: None"
Scalar(v) == [ok |-> TRUE, kind |-> "scalar", v |-> v, dict |-> << >>]
Call(f, kw) ==
    CASE f.body = "sum" ->
            IF ArgsAreInts(f, kw) THEN Scalar(IntV(SumArgs(f, kw, 1)))
            ELSE [ok |-> FALSE, kind |-> "TypeError", v |-> NoneV, dict |-> << >>]
      [] f.body = "double" ->
            IF ArgsAreInts(f, kw) THEN Scalar(IntV(2 * SumArgs(f, kw, 1)))
            ELSE [ok |-> FALSE, kind |-> "TypeError", v |-> NoneV, dict |-> << >>]
      [] f.body = "format" ->
            [ok |-> TRUE, kind |-> "dict", v |-> NoneV,
             dict |-> [k \in {"formatted"} |-> StrV(FormatOf(kw[f.params[1]]))]]
      [] f.body = "nothing" ->
            [ok |-> TRUE, kind |-> "none", v |-> NoneV, dict |-> << >>]
      [] f.body = "seven" -> Scalar(IntV(7))
      [] f.body = "range" -> Scalar(RangeV)
      [] f.body = "stop" ->
            [ok |-> FALSE, kind |-> "StopIteration", v |-> NoneV, dict |-> << >>]
      [] f.body = "report" ->
            [ok |-> TRUE, kind |-> "dict", v |-> NoneV,
             dict |-> [k \in {"status"} |-> StrV("ValueError: bad")]]
      [] f.body = "handles" ->
            [ok |-> TRUE, kind |-> "dict", v |-> NoneV,
             dict |-> [k \in {"handle"} |-> ObjV]]
      [] OTHER -> Scalar(ObjV)

TypeErrorText == "unsupported operand type(s)"
\* str(e) of an exception the function body raised.
RaisedText(ename) == IF ename = "TypeError" THEN TypeErrorText ELSE ""
MissingText(p) == "Required parameter '" \o p \o "' not found in context"

\* The first declared parameter that the context lacks (0: none).
RECURSIVE FirstMissing(_, _, _)
FirstMissing(f, ctx, i) ==
    IF i > Len(f.params) THEN 0
    ELSE IF f.params[i] \notin DOMAIN ctx THEN i
    ELSE FirstMissing(f, ctx, i + 1)

\* What the wrappers make of the function's result: None -> {}, a dict as
\* it is, anything else under `key`.
Wrapped(r, key) ==
    IF ~r.ok THEN Raises(r.kind, RaisedText(r.kind))
    ELSE IF r.kind = "none" THEN Returns(<< >>)
    ELSE IF r.kind = "dict" THEN Returns(r.dict)
    ELSE Returns([k \in {key} |-> r.v])

\* Tools.code_executor.with_context(func)(context): a missing parameter
\* raises ValueError; a scalar is stored under func.__name__.
WithContextExecutor(f, ctx) ==
    LET miss == FirstMissing(f, ctx, 1) IN
    IF miss /= 0 THEN Raises("ValueError", MissingText(f.params[miss]))
    ELSE Wrapped(Call(f, [p \in {f.params[i] : i \in 1 .. Len(f.params)} |-> ctx[p]]),
                 f.name)

\* Tools.math_operations.with_context(func)(context): a missing parameter
\* is passed as None; a scalar is stored under "<func.__name__>_result".
WithContextMath(f, ctx) ==
    Wrapped(Call(f, [p \in {f.params[i] : i \in 1 .. Len(f.params)} |-> Get(ctx, p)]),
            f.name \o "_result")

\* ------------------------------------------------------------ the tools

\* The tool_code property of a Tool: absent or "" (NoCode), only whitespace
\* (BlankCode), or source that defines the function fn.
NoCode == [kind |-> "none", fn |-> Func("", << >>, "nothing")]
BlankCode == [kind |-> "blank", fn |-> Func("", << >>, "nothing")]
Source(fn) == [kind |-> "source", fn |-> fn]

\* tool.get("tool_code") as a condition, and tool["tool_code"].strip()
CodeTruthy(tc) == tc.kind \in {"blank", "source"}
CodeNonBlank(tc) == tc.kind = "source"

Tool(name, tool_code, import_from) ==
    [name |-> name, tool_code |-> tool_code, import_from |-> import_from]

\* The functions of Tools/math_operations.py.
add_numbers == Func("add_numbers", <<"a", "b">>, "sum")
multiply_by_two == Func("multiply_by_two", <<"add_numbers_result">>, "double")
format_result == Func("format_result", <<"multiply_by_two_result">>, "format")

\* Further tool functions a user may write.
log_step == Func("log_step", << >>, "nothing")
give_up == Func("give_up", << >>, "stop")
make_range == Func("make_range", << >>, "range")
lucky == Func("lucky", <<"a">>, "seven")
make_handle == Func("make_handle", << >>, "object")
summary == Func("summary", <<"a">>, "format")
last_failure == Func("last_failure", << >>, "report")
open_handles == Func("open_handles", << >>, "handles")

UserFuncs ==
    {log_step, lucky, make_handle, summary, give_up, make_range,
     last_failure, open_handles}
MathFuncs == {add_numbers, multiply_by_two, format_result}

\* importlib.import_module(import_from) and getattr(module, function_name):
\* the importable modules and the callables they hold, each decorated with
\* math_operations.with_context.
ModuleNames == {"Tools.math_operations", "Tools.user_tools"}
ModuleFuncs(module) ==
    IF module = "Tools.math_operations" THEN MathFuncs ELSE UserFuncs
HasSymbol(module, symbol) == \E f \in ModuleFuncs(module) : f.name = symbol
Symbol(module, symbol) == CHOOSE f \in ModuleFuncs(module) : f.name = symbol

\* The strings of the model that contain "Error:" or "Exception:": the text
\* "<ename>: <evalue>" of an exception whose class name ends in Error.
ErrorClassNames == {"ValueError", "TypeError", "NameError", "SyntaxError"}
ParamNames == UNION { { f.params[i] : i \in 1 .. Len(f.params) } :
                        f \in MathFuncs \cup UserFuncs }
Messages ==
    {TypeErrorText, "invalid syntax", "bad"}
    \cup { MissingText(p) : p \in ParamNames }
    \cup { "name '" \o f.name \o "' is not defined" : f \in MathFuncs \cup UserFuncs }
MarkedStrings == { e \o ": " \o m : e \in ErrorClassNames, m \in Messages }

\* "Error:" in output or "Exception:" in output
HasMarker(t) ==
    \/ t.form = "raw" /\ t.s \in MarkedStrings
    \/ t.form = "dict" /\ \E k \in DOMAIN t.items :
          t.items[k].tok = "string" /\ t.items[k].x \in MarkedStrings

\* ------------------------------------------------------ the worker's side

\* What the worker does with the program execute_task_by_code sends it:
\* the context literal is read back, tool_code defines its function,
\* with_context(<tool name>)(context) is called, and its value is the
\* cell's result.
WorkerRuns(tool, ctx) ==
    LET lit == ReprDict(ctx).items IN
    IF \E k \in DOMAIN lit : ~Evaluates(lit[k])
    THEN Raises("SyntaxError", "invalid syntax")
    ELSE IF tool.tool_code.fn.name /= tool.name
    THEN Raises("NameError", "name '" \o tool.name \o "' is not defined")
    ELSE WithContextExecutor(tool.tool_code.fn,
                             [k \in DOMAIN lit |-> EvalToken(lit[k])])

\* The messages of that submission on the iopub channel.
WorkerEvents(tool, ctx) ==
    LET r == WorkerRuns(tool, ctx) IN
    << StatusMsg(TRUE, "busy"),
       IF r.ok THEN ResultMsg(TRUE, ReprDict(r.dict))
       ELSE ErrorMsg(TRUE, r.ename, r.evalue),
       StatusMsg(TRUE, "idle") >>

\* execute_code on a registered worker that sends `events`: the loop body
\* for each message until the loop is left.
RECURSIVE Polled(_, _)
Polled(st, events) ==
    IF st.pc = "done" \/ events = << >> THEN st
    ELSE Polled(HandleMsg(st, Head(events)), Tail(events))

ExecuteCodeOn(id, events) ==
    Polled(Submitted([IdleCall EXCEPT !.op = "execute_code", !.kernel_id = id]),
           events).ret

\* ------------------------------------------------------- WorkflowManager

\* The dicts the two execute_task_by_* methods return.  raised: the call
\* did not return a dict but left with an exception.
TaskSuccess(ctx) ==
    [success |-> TRUE, raised |-> FALSE, error |-> NoneText, task |-> "",
     context |-> ctx]
\* An exception that no handler of the method caught.
Uncaught(e) ==
    [success |-> FALSE, raised |-> TRUE, error |-> Raw(e), task |-> "",
     context |-> << >>]
\* A faulty variant of TaskFailure: the failure reports an empty context
\* instead of the shared one.
TaskFailureEmptyContext(task, error, ctx) ==
    [success |-> FALSE, raised |-> FALSE, error |-> error, task |-> task.name,
     context |-> << >>]
TaskFailure(task, error, ctx) ==
    [success |-> FALSE, raised |-> FALSE, error |-> error, task |-> task.name,
     context |-> ctx]

\* eval(output) and what follows it: a dict is merged as it is; a text that
\* does not evaluate is a parse failure.
ParsedOutput(task, output, ctx) ==
    IF output.form = "dict" /\ \A k \in DOMAIN output.items :
                                  Evaluates(output.items[k])
    THEN TaskSuccess(Update(ctx,
             [k \in DOMAIN output.items |-> EvalToken(output.items[k])]))
    ELSE TaskFailure(task, Raw("Failed to parse output: invalid syntax"), ctx)

\* execute_task_by_code once the kernel is started and the code was run:
\* a text with "Error:" or "Exception:" is a failure; no output at all
\* changes nothing; else the output is evaluated and merged.
AfterExecuteCode(task, output, ctx) ==
    IF output /= NoneText /\ HasMarker(output)
    THEN TaskFailure(task, output, ctx)
    ELSE IF output = NoneText THEN TaskSuccess(ctx)
    ELSE ParsedOutput(task, output, ctx)

\* execute_task_by_code(task, tool, context_variables) with the registry
\* `ks`: start_kernel() (None when the pool is full), then execute_code on
\* the new worker `id`.
ExecuteTaskByCode(task, tool, ctx, ks, id) ==
    IF ~CodeTruthy(tool.tool_code)
    THEN TaskFailure(task,
            Raw("Tool " \o tool.name \o " does not have tool_code"), ctx)
    ELSE IF Cardinality(DOMAIN ks) >= max_kernels
    THEN TaskFailure(task, Raw("Failed to start kernel"), ctx)
    ELSE AfterExecuteCode(task,
            ExecuteCodeOn(id, WorkerEvents(tool, ctx)).output, ctx)

\* Whether that call registers a new worker.
StartsKernel(tool, ks) ==
    CodeTruthy(tool.tool_code) /\ Cardinality(DOMAIN ks) < max_kernels

\* function_name = tool.get('tool_code') or tool['name']: a tool_code of
\* blanks is truthy and is itself taken as the name.
BlankText == "  "
FunctionName(tool) ==
    IF CodeTruthy(tool.tool_code) THEN BlankText ELSE tool.name

\* execute_task_by_import(task, tool, context_variables): import the
\* module, take the symbol named by the tool, call it with the context and
\* merge what it returns.
ExecuteTaskByImport(task, tool, ctx) ==
    IF tool.import_from = None
    THEN TaskFailure(task,
            Raw("Tool " \o tool.name \o " does not have import_from attribute"), ctx)
    ELSE IF tool.import_from \notin ModuleNames
    THEN TaskFailure(task, Raw("No module named '" \o tool.import_from \o "'"), ctx)
    ELSE LET function_name == FunctionName(tool) IN
         IF ~HasSymbol(tool.import_from, function_name)
         THEN TaskFailure(task,
                 Raw("module '" \o tool.import_from \o "' has no attribute '"
                     \o function_name \o "'"), ctx)
         ELSE LET r == WithContextMath(Symbol(tool.import_from, function_name), ctx) IN
              IF r.ok THEN TaskSuccess(Update(ctx, r.dict))
              ELSE TaskFailure(task, Raw(r.evalue), ctx)

\* The choice of execute_workflow: the code path when tool_code is there
\* and not blank, else the import path.
TakesCodePath(tool) == CodeNonBlank(tool.tool_code)
ExecuteTask(task, ctx, ks, id) ==
    IF TakesCodePath(task.tool)
    THEN ExecuteTaskByCode(task, task.tool, ctx, ks, id)
    ELSE ExecuteTaskByImport(task, task.tool, ctx)

\* ---- execute_workflow

\* The tasks of a workflow, in their order.
TasksOf(tools) ==
    [i \in 1 .. Len(tools) |-> [name |-> "task" \o ToString(i), tool |-> tools[i]]]

NoResult == TaskSuccess(<< >>)

\* No execute_workflow call is under way.
\*   caller: the dict object the caller passed as context_variables; the
\*           run works on this very object.
\*   dispatches: for each task dispatched so far, the context it was given,
\*           the size of the registry then, and whether its worker failed
\*           to start.
ReadyRun ==
    [pc |-> "ready", k |-> 0, tasks |-> << >>, init |-> << >>, ctx |-> << >>,
     caller |-> << >>, dispatches |-> << >>,
     log |-> << >>, folded |-> << >>, result |-> NoResult]

\* One of the concurrent execute_workflow calls, not under way.
\*   kernel_id, km: the worker its code task is starting or using
\*   sent: the context written into the code that was submitted
\*   full: whether a code task of the run found the pool full
ReadyOne ==
    [pc |-> "ready", k |-> 0, tasks |-> << >>, init |-> << >>, ctx |-> << >>,
     caller |-> << >>, dispatches |-> << >>,
     log |-> << >>, folded |-> << >>, result |-> NoResult,
     kernel_id |-> None, km |-> 0, sent |-> << >>, full |-> FALSE]

\* A task is called with the shared context.
Dispatched(r, given, pool, start_failed) ==
    [r EXCEPT !.dispatches = Append(@, [k |-> r.k, given |-> given,
                                        pool |-> pool,
                                        start_failed |-> start_failed])]

\* A faulty variant of AfterTask: the loop does not return on a failed task
\* but goes on with the next one.
AfterTaskGoesOn(r, res) ==
    LET logged == [r EXCEPT !.log = Append(@, [k |-> r.k, success |-> res.success])] IN
    IF r.k = Len(r.tasks)
    THEN [logged EXCEPT !.pc = IF res.success THEN "succeeded" ELSE "failed",
             !.ctx = res.context, !.caller = res.context,
             !.folded = Append(@, res.context), !.result = res]
    ELSE [logged EXCEPT !.k = @ + 1, !.ctx = res.context,
             !.caller = res.context, !.folded = Append(@, res.context)]

\* The loop of execute_workflow after one task returned `res`: a failure is
\* returned at once; else the context goes to the next task, and after the
\* last task the call returns success with it.  An exception of the task
\* method would leave the loop, which has no handler.  A successful task
\* has updated the shared dict in place, which is the caller's object.
\* log: the tasks that returned so far, each with its success flag.
\* folded: the context each successful task returned.
AfterTask(r, res) ==
    LET logged == [r EXCEPT !.log = Append(@, [k |-> r.k, success |-> res.success])] IN
    IF res.raised
    THEN [logged EXCEPT !.pc = "raised", !.result = res]
    ELSE IF ~res.success
    THEN [logged EXCEPT !.pc = "failed", !.result = res]
    ELSE IF r.k = Len(r.tasks)
    THEN [logged EXCEPT !.pc = "succeeded", !.ctx = res.context,
             !.caller = res.context,
             !.folded = Append(@, res.context),
             !.result = TaskSuccess(res.context)]
    ELSE [logged EXCEPT !.k = @ + 1, !.ctx = res.context,
             !.caller = res.context, !.folded = Append(@, res.context)]

\* execute_workflow(workflow_name, context_variables) is called: the tasks
\* are read; a workflow without tasks returns success at once.
Started(tools, ctx0) ==
    IF tools = << >>
    THEN [ReadyRun EXCEPT !.pc = "succeeded", !.init = ctx0, !.ctx = ctx0,
             !.caller = ctx0, !.result = TaskSuccess(ctx0)]
    ELSE [ReadyRun EXCEPT !.pc = "running", !.k = 1, !.tasks = TasksOf(tools),
             !.init = ctx0, !.ctx = ctx0, !.caller = ctx0]

\* A faulty variant of DispatchTask: every task is given the initial
\* context instead of the one the task before it returned.
DispatchTaskOnInitialContext ==
    /\ run.pc = "running"
    /\ LET task == run.tasks[run.k]
           starts == TakesCodePath(task.tool)
                        /\ StartsKernel(task.tool, kernels)
           id == IF starts THEN LeastFreshId ELSE None
       IN /\ run' = AfterTask(
                       Dispatched(run, run.init, Cardinality(DOMAIN kernels), FALSE),
                       ExecuteTask(task, run.init, kernels, id))
          /\ kernels' = IF starts THEN Register(kernels, id, LeastFreshProc)
                        ELSE kernels
          /\ procs' = IF starts THEN procs \cup {LeastFreshProc} ELSE procs
    /\ UNCHANGED <<calls, fold, executor, store, runs>>

\* One turn of the loop: the next task is executed on its path (a code
\* task registers the worker it starts) and its result handled.
DispatchTask ==
    /\ run.pc = "running"
    /\ LET task == run.tasks[run.k]
           starts == TakesCodePath(task.tool)
                        /\ StartsKernel(task.tool, kernels)
           id == IF starts THEN LeastFreshId ELSE None
       IN /\ run' = AfterTask(
                       Dispatched(run, run.ctx, Cardinality(DOMAIN kernels), FALSE),
                       ExecuteTask(task, run.ctx, kernels, id))
          /\ kernels' = IF starts THEN Register(kernels, id, LeastFreshProc)
                        ELSE kernels
          /\ procs' = IF starts THEN procs \cup {LeastFreshProc} ELSE procs
    /\ UNCHANGED <<calls, fold, executor, store, runs>>

\* str(e) of what km.start_kernel raised.
StartErrorText == "Kernel died before replying to kernel_info"

\* A faulty variant of KernelStartFailure: the exception of start_kernel
\* is caught nowhere.
KernelStartEscapes(task, ctx) == Uncaught(StartErrorText)

\* execute_task_by_code when km.start_kernel raises inside start_kernel:
\* the exception reaches the handler of execute_task_by_code.
KernelStartFailure(task, ctx) == TaskFailure(task, Raw(StartErrorText), ctx)

\* One turn of the loop for a code task whose worker fails to start:
\* nothing is registered.
DispatchTaskStartFails ==
    /\ run.pc = "running"
    /\ LET task == run.tasks[run.k] IN
          /\ TakesCodePath(task.tool)
          /\ StartsKernel(task.tool, kernels)
          /\ run' = AfterTask(
                       Dispatched(run, run.ctx, Cardinality(DOMAIN kernels), TRUE),
                       KernelStartFailure(task, run.ctx))
    /\ UNCHANGED <<kernels, procs, calls, fold, executor, store, runs>>

\* The caller has the result; the manager is ready for the next run, on
\* the same pool.
RunReturns ==
    /\ run.pc \in {"succeeded", "failed", "raised"}
    /\ run' = ReadyRun
    /\ UNCHANGED <<kernels, procs, calls, fold, executor, store, runs>>

\* Nothing was taken down the two paths yet.
NoFold ==
    [stage |-> "none", fn |-> log_step, ctx |-> << >>,
     code |-> NoResult, imported |-> NoResult]

\* CodeExecutor.__init__ and WorkflowManager.__init__: an empty registry,
\* no call and no run under way.
Init ==
    /\ kernels = << >>
    /\ procs = {}
    /\ calls = [c \in Calls |-> IdleCall]
    /\ run = ReadyRun
    /\ fold = NoFold
    /\ executor = "open"
    /\ store = [tools |-> {}, tasks |-> << >>, workflows |-> << >>,
                reply |-> "none"]
    /\ runs = [r \in Runs |-> ReadyOne]

\* ------------------------------------------- one function, both paths

\* The tool that holds `fn` as embedded code, and the tool that names it
\* in the module it can be imported from.
CodeTool(fn) == Tool(fn.name, Source(fn), None)
ImportTool(fn) ==
    Tool(fn.name, NoCode,
         IF fn \in MathFuncs THEN "Tools.math_operations" ELSE "Tools.user_tools")

\* ------------------------------------------------------------- the inputs

\* The longest stored workflow.
MaxTasks == 4

\* Contexts handed to a tool function: every subset of the declared input
\* names and text, bound here to small values.
FoldKeys == {"a", "b", "add_numbers_result", "note"}
FoldValue(k) ==
    CASE k = "a" -> IntV(5)
      [] k = "b" -> IntV(3)
      [] k = "add_numbers_result" -> IntV(8)
      [] OTHER -> StrV("x")
FoldContexts == { [k \in K |-> FoldValue(k)] : K \in SUBSET FoldKeys }

\* The tools of the stored workflows.
add_code == CodeTool(add_numbers)
log_code == CodeTool(log_step)
add_imported == ImportTool(add_numbers)
multiply_imported == ImportTool(multiply_by_two)
format_imported == ImportTool(format_result)
missing_imported == Tool("no_such_function", NoCode, "Tools.math_operations")
\* add_numbers by reference, with a tool_code of blanks only.
blank_imported == Tool("add_numbers", BlankCode, "Tools.math_operations")
\* A reference into a module that cannot be imported.
unimportable == Tool("add_numbers", NoCode, "Tools.no_such_module")
\* A tool with neither code nor reference.
empty_tool == Tool("nothing_at_all", NoCode, None)

RunTools ==
    {add_code, log_code, add_imported, multiply_imported, format_imported,
     missing_imported, blank_imported, unimportable, empty_tool}

RECURSIVE SeqsUpTo(_, _)
SeqsUpTo(S, n) ==
    IF n = 0 THEN { << >> }
    ELSE LET shorter == SeqsUpTo(S, n - 1) IN
         shorter \cup { Append(q, x) : q \in shorter, x \in S }

\* The stored workflows: up to MaxTasks tasks.
Workflows == SeqsUpTo(RunTools, MaxTasks)

\* The initial contexts of the runs.
RunContexts == { [k \in {"a", "b"} |-> FoldValue(k)], << >> }

\* The function is executed once as embedded code in a fresh worker and
\* once in-process, each time on the same context.
FoldBothPaths ==
    /\ fold.stage = "input"
    /\ fold' = [fold EXCEPT
          !.stage = "done",
          !.code = ExecuteTaskByCode([name |-> "task1", tool |-> CodeTool(fold.fn)],
                                     CodeTool(fold.fn), fold.ctx, kernels, "k1"),
          !.imported = ExecuteTaskByImport(
                          [name |-> "task1", tool |-> ImportTool(fold.fn)],
                          ImportTool(fold.fn), fold.ctx)]
    /\ UNCHANGED <<kernels, procs, calls, run, executor, store, runs>>

\* The next function and context are taken.
FoldNext ==
    /\ fold.stage = "done"
    /\ \E fn \in MathFuncs \cup UserFuncs, ctx \in FoldContexts :
          fold' = [NoFold EXCEPT !.stage = "input", !.fn = fn, !.ctx = ctx]
    /\ UNCHANGED <<kernels, procs, calls, run, executor, store, runs>>

FoldInit ==
    /\ kernels = << >>
    /\ procs = {}
    /\ calls = [c \in Calls |-> IdleCall]
    /\ run = ReadyRun
    /\ executor = "open"
    /\ store = [tools |-> {}, tasks |-> << >>, workflows |-> << >>,
                reply |-> "none"]
    /\ runs = [r \in Runs |-> ReadyOne]
    /\ \E fn \in MathFuncs \cup UserFuncs, ctx \in FoldContexts :
          fold = [NoFold EXCEPT !.stage = "input", !.fn = fn, !.ctx = ctx]

\* Every tool function on every context, down both dispatch paths.
SpecFold == FoldInit /\ [][FoldBothPaths \/ FoldNext]_vars

\* ------------------------------------------------------- runs on one pool

\* A caller runs one of the stored workflows on an initial context.
StartRun ==
    /\ run.pc = "ready"
    /\ \E tools \in Workflows, ctx0 \in RunContexts : run' = Started(tools, ctx0)
    /\ UNCHANGED <<kernels, procs, calls, fold, executor, store, runs>>

RunNext ==
    \/ StartRun
    \/ DispatchTask
    \/ DispatchTaskStartFails
    \/ RunReturns

\* One caller running workflows, one run after the other, on one pool.
SpecRun == Init /\ [][RunNext]_vars

\* ------------------------------------------------- the pool, concurrently

\* The timeout (in ticks) of the submissions made while the pool is shared.
PoolTimeout == 1

\* What the worker may answer there.
PoolMsgs ==
    { StatusMsg(TRUE, "idle"), ErrorMsg(TRUE, "ValueError", "bad") }

PoolNext ==
    \E c \in Calls :
       \/ \E arg \in KernelIds \cup {None} : StartKernel(c, arg)
       \/ StartKernelResume(c)
       \/ StartKernelFails(c)
       \/ \E id \in KernelIds : StopKernel(c, id)
       \/ StopKernelResume(c)
       \/ \E arg \in KernelIds \cup {None} :
             ExecuteCode(c, "x=1", arg, PoolTimeout, TRUE)
       \/ \E msg \in PoolMsgs : PollMsg(c, msg, 0)
       \/ PollTimeout(c)
       \/ Forget(c)

\* Concurrent start_kernel, stop_kernel and execute_code calls on one
\* CodeExecutor, interleaved at their awaits.
SpecPool == Init /\ [][PoolNext]_vars

\* --------------------------------------------- the pool, one call at a time

SeqNext ==
    \/ \E arg \in KernelIds \cup {None} : StartKernel(1, arg)
    \/ StartKernelResume(1)
    \/ StartKernelFails(1)
    \/ \E id \in KernelIds : StopKernel(1, id)
    \/ StopKernelResume(1)
    \/ Cleanup(1)
    \/ CleanupResume(1)
    \/ Forget(1)

\* One caller starting and stopping kernels and cleaning up, one call after
\* the other.
SpecSeq == Init /\ [][SeqNext]_vars

\* ------------------------------------------------- stopping and cleaning up

\* The ids the callers name.
TeardownIds == {"k1", "k2"}

TeardownNext ==
    \E c \in Calls :
       \/ \E arg \in TeardownIds : StartKernel(c, arg)
       \/ StartKernelResume(c)
       \/ \E id \in TeardownIds : StopKernel(c, id)
       \/ StopKernelResume(c)
       \/ Cleanup(c)
       \/ CleanupResume(c)
       \/ ExecuteCode(c, "x=1", "k1", PoolTimeout, FALSE)
       \/ PollMsg(c, StatusMsg(TRUE, "idle"), 0)
       \/ PollTimeout(c)
       \/ PollRaises(c, ShutdownText, 0)
       \/ Forget(c)

\* Concurrent callers that start, use and stop workers and clean up.
SpecTeardown == Init /\ [][TeardownNext]_vars

\* ------------------------------------------------ one submission at a time

\* The texts a worker may emit.
ExecTexts == { Raw("out"), Raw(" ") }

\* The messages of the submission that is polling.
OwnMsgs ==
    { StreamMsg(TRUE, t) : t \in ExecTexts }
    \cup { ResultMsg(TRUE, t) : t \in ExecTexts }
    \cup { ErrorMsg(TRUE, "ValueError", "bad"),
           ErrorMsg(TRUE, "ZeroDivisionError", "division by zero") }
    \cup { StatusMsg(TRUE, st) : st \in {"idle", "busy"} }

\* Messages of another submission on the same worker, an earlier one that
\* timed out among them.
ForeignMsgs ==
    { StreamMsg(FALSE, Raw("late")), ResultMsg(FALSE, Raw("late")),
      ErrorMsg(FALSE, "KeyboardInterrupt", ""), StatusMsg(FALSE, "idle"),
      StatusMsg(FALSE, "busy") }

ExecMsgs == OwnMsgs \cup ForeignMsgs \cup {MalformedMsg}

\* str(e) of what the channel may raise.
ExecRaises == { "", "channel closed" }

ExecNext ==
    \/ \E arg \in KernelIds \cup {None}, T \in 0 .. MaxTimeout :
          ExecuteCode(1, "x=1", arg, T, TRUE)
    \/ StartKernelResume(1)
    \/ StartKernelFails(1)
    \/ \E msg \in ExecMsgs, d \in 0 .. PollTicks : PollMsg(1, msg, d)
    \/ PollEmpty(1)
    \/ PollTimeout(1)
    \/ \E e \in ExecRaises, d \in 0 .. PollTicks : PollRaises(1, e, d)
    \/ \E arg \in KernelIds : ExecuteCodeSendRaises(1, arg)
    \/ StartKernelResumeSendRaises(1)
    \/ Forget(1)

\* One caller submitting code, one submission after the other.
SpecExec == Init /\ [][ExecNext]_vars

\* ------------------------------------------------- formatting the source

FormatNext ==
    \/ \E code \in Sources, arg \in {None, "k1", "k2"}, auto_format \in BOOLEAN :
          ExecuteCode(1, code, arg, PoolTimeout, auto_format)
    \/ StartKernelResume(1)
    \/ \E msg \in PoolMsgs : PollMsg(1, msg, 0)
    \/ Forget(1)

\* One caller submitting sources black formats, leaves alone or rejects.
SpecFormat == Init /\ [][FormatNext]_vars

\* ------------------------------------------------------------ the claims

\* C1: in every reachable state, under any interleaving of concurrent
\* start_kernel, stop_kernel and execute_code calls, the kernels registry
\* holds at most max_kernels entries.
C1_RegistryWithinCapacity == Cardinality(DOMAIN kernels) <= max_kernels

\* C2: a submission with timeout T whose worker never sends the idle status
\* of that submission is answered with "Execution timed out" once T has
\* elapsed and no later than one poll interval after T: no submission is
\* still polling at T plus one poll interval, and a timeout is reported at
\* an elapsed time in [T, T + poll interval).
C2_TimeoutWithinOnePoll ==
    \A c \in Calls :
       /\ calls[c].pc = "poll" =>
             calls[c].elapsed < calls[c].timeout + PollTicks
       /\ (calls[c].pc = "done" /\ calls[c].exit = "timeout") =>
             /\ calls[c].ret.output = Raw("Execution timed out")
             /\ calls[c].ret.execution_time >= calls[c].timeout
             /\ calls[c].ret.execution_time < calls[c].timeout + PollTicks

\* The three outcomes of execute_code, read off what it returned.
ReturnedTimeout(c) == calls[c].ret.output = Raw("Execution timed out")
ReturnedError(c) ==
    /\ Truthy(calls[c].error)
    /\ calls[c].ret.output = calls[c].error
    /\ ~ReturnedTimeout(c)
ReturnedSuccess(c) ==
    /\ calls[c].exit /= "full"
    /\ ~Truthy(calls[c].error)
    /\ calls[c].ret.output = LastNonEmpty(calls[c].output)

\* C10: every call of execute_code that returns, also one that finds the
\* pool at capacity, returns exactly one of success-with-output, timeout
\* and error, with the elapsed time and the id of the worker it used.
C10_OneOutcomeWithWorkerId ==
    \A c \in Calls :
       (calls[c].op = "execute_code" /\ calls[c].pc = "done") =>
          /\ Cardinality({ o \in {"success", "timeout", "error"} :
                \/ o = "success" /\ ReturnedSuccess(c)
                \/ o = "timeout" /\ ReturnedTimeout(c)
                \/ o = "error" /\ ReturnedError(c) }) = 1
          /\ calls[c].ret.kernel_id \in KernelIds
          /\ calls[c].ret.execution_time \in 0 .. MaxElapsed

\* Whether a run has returned.
RunEnded == run.pc \in {"succeeded", "failed"}

\* A tool that cannot fail by itself: embedded code whose function takes
\* no input and returns nothing or a number.
CannotFail(tool) ==
    /\ CodeNonBlank(tool.tool_code)
    /\ tool.tool_code.fn.name = tool.name
    /\ tool.tool_code.fn.params = << >>
    /\ tool.tool_code.fn.body \in {"nothing", "seven"}

\* C3: a workflow whose tools all succeed, also one with more embedded-code
\* tasks than the pool holds workers and one run after earlier runs on the
\* same pool, executes all its tasks and returns success with the folded
\* context (every worker that is started does start).
C3_SucceedingWorkflowSucceeds ==
    (RunEnded /\ (\A i \in 1 .. Len(run.tasks) : CannotFail(run.tasks[i].tool))
        /\ \A i \in 1 .. Len(run.dispatches) : ~run.dispatches[i].start_failed) =>
       /\ run.pc = "succeeded"
       /\ Len(run.log) = Len(run.tasks)
       /\ run.result.success
       /\ run.result.context = run.ctx

\* C4: when task k of a run fails, the context of the failure result is
\* the initial context folded with the results of tasks 1..k-1 only: the
\* context task k-1 returned (the initial one for k = 1).
C4_FailureContextIsPriorContext ==
    run.pc = "failed" =>
       LET k == Len(run.log) IN
       /\ ~run.result.success
       /\ Len(run.folded) = k - 1
       /\ run.result.context = IF k = 1 THEN run.init ELSE run.folded[k - 1]

\* C4's case: a task after the first fails, and earlier tasks had changed
\* the context.
C4_Witness ==
    /\ run.pc = "failed"
    /\ Len(run.log) > 1
    /\ run.result.context /= run.init

\* C5: in one run the tasks are dispatched in order, each at most once,
\* and none after the first task that returned success = false; the run
\* ends succeeded after all of them or failed at the failing one.
C5_NoDispatchAfterFailure ==
    /\ \A i \in 1 .. Len(run.log) : run.log[i].k = i
    /\ \A i \in 1 .. Len(run.log) - 1 : run.log[i].success
    /\ Len(run.log) <= Len(run.tasks)
    /\ run.pc = "running" =>
          run.k = Len(run.log) + 1 /\ \A i \in 1 .. Len(run.log) : run.log[i].success
    /\ run.pc = "failed" =>
          Len(run.log) >= 1 /\ ~run.log[Len(run.log)].success
    /\ run.pc = "succeeded" =>
          Len(run.log) = Len(run.tasks)
             /\ \A i \in 1 .. Len(run.log) : run.log[i].success

\* C5's case: a run has failed with tasks left that were never dispatched.
C5_Witness ==
    /\ run.pc = "failed"
    /\ Len(run.log) < Len(run.tasks)

\* The arguments the convention binds, and what the function returns on
\* them, when the context holds every declared input.
FoldArgs == [p \in { fold.fn.params[i] : i \in 1 .. Len(fold.fn.params) } |->
               Get(fold.ctx, p)]
FoldInputsPresent == FirstMissing(fold.fn, fold.ctx, 1) = 0

\* C6: the folding of a tool function's result is the same on both paths:
\* for every function, context and kind of return value, and for a missing
\* input, embedded code in a worker and the in-process call have the same
\* outcome and leave the same context.
C6_SameFoldOnBothPaths ==
    fold.stage = "done" =>
       /\ fold.code.success = fold.imported.success
       /\ fold.code.context = fold.imported.context

\* C7: on either path a function named f that returns a bare scalar r
\* leaves the context with "f_result" bound to r and every other key as it
\* was.
C7_ScalarUnderDerivedKey ==
    (fold.stage = "done" /\ FoldInputsPresent
        /\ Call(fold.fn, FoldArgs).ok /\ Call(fold.fn, FoldArgs).kind = "scalar") =>
       \A res \in {fold.code, fold.imported} :
          /\ res.success
          /\ res.context =
                Update(fold.ctx, [k \in {fold.fn.name \o "_result"} |->
                                    Call(fold.fn, FoldArgs).v])

\* C8: from the context {a: 5, b: 3}, the workflow of an embedded-code task
\* computing a + b and an import-based task doubling that result returns
\* success with both derived values, 8 and 16, in the context (the pool
\* has room and the worker starts).
C8_EndToEnd ==
    (RunEnded /\ run.init = [k \in {"a", "b"} |-> FoldValue(k)]
        /\ Len(run.tasks) = 2
        /\ run.tasks[1].tool = add_code
        /\ run.tasks[2].tool = multiply_imported
        /\ \A i \in 1 .. Len(run.dispatches) :
              ~run.dispatches[i].start_failed /\ run.dispatches[i].pool < max_kernels) =>
       /\ run.result.success
       /\ \E k1, k2 \in DOMAIN run.result.context :
             /\ k1 /= k2
             /\ run.result.context[k1] = IntV(8)
             /\ run.result.context[k2] = IntV(16)

\* C9: on either path, when a declared input is absent from the context
\* the task fails and the context stays as it was.
C9_MissingInputFails ==
    (fold.stage = "done" /\ ~FoldInputsPresent) =>
       \A res \in {fold.code, fold.imported} :
          /\ ~res.success
          /\ res.context = fold.ctx

\* C14: execute_workflow never mutates the mapping its caller passes as
\* context_variables: when the run has returned, failed or succeeded, the
\* caller's mapping still holds exactly the initial context.
C14_CallerMappingUntouched ==
    RunEnded => run.caller = run.init

\* C15: the embedded-code path is taken exactly when tool_code is there and
\* not blank; for every other tool (tool_code absent, empty or blanks only)
\* the symbol resolved in import_from is the one the reference names, and a
\* failure of such a task is the failure of the reference.
C15_BlankCodeUsesReference ==
    \A i \in 1 .. Len(run.dispatches) :
       LET tool == run.tasks[i].tool IN
       /\ TakesCodePath(tool) <=> tool.tool_code.kind = "source"
       /\ ~TakesCodePath(tool) =>
             /\ FunctionName(tool) = tool.name
             /\ (run.pc = "failed" /\ i = Len(run.log)) =>
                   run.result =
                      ExecuteTaskByImport(run.tasks[i],
                         [tool EXCEPT !.tool_code = NoCode],
                         run.dispatches[i].given)

\* The reasons for which the task dispatched as number i cannot succeed.
PoolWasFull(i) ==
    TakesCodePath(run.tasks[i].tool) /\ run.dispatches[i].pool >= max_kernels
WorkerDidNotStart(i) == run.dispatches[i].start_failed
NoReference(i) ==
    ~TakesCodePath(run.tasks[i].tool) /\ run.tasks[i].tool.import_from = None
ModuleNotImportable(i) ==
    /\ ~TakesCodePath(run.tasks[i].tool)
    /\ run.tasks[i].tool.import_from \notin ModuleNames \cup {None}
SymbolMissing(i) ==
    /\ ~TakesCodePath(run.tasks[i].tool)
    /\ run.tasks[i].tool.import_from \in ModuleNames
    /\ ~HasSymbol(run.tasks[i].tool.import_from, FunctionName(run.tasks[i].tool))
FunctionRaised(i) ==
    LET tool == run.tasks[i].tool IN
    \/ /\ ~TakesCodePath(tool)
       /\ tool.import_from \in ModuleNames
       /\ HasSymbol(tool.import_from, FunctionName(tool))
       /\ ~WithContextMath(Symbol(tool.import_from, FunctionName(tool)),
                           run.dispatches[i].given).ok
    \/ /\ TakesCodePath(tool)
       /\ ~PoolWasFull(i) /\ ~WorkerDidNotStart(i)
       /\ ~WorkerRuns(tool, run.dispatches[i].given).ok

\* C16: no task-level error leaves execute_workflow as an exception: a full
\* pool, a worker that fails to start, a module that cannot be imported, a
\* symbol missing from the module, a tool with neither code nor reference
\* and an exception of the tool function each end the run with a result
\* {success: false, error, task, context} for the failing task.
C16_ErrorsBecomeFailureResults ==
    /\ run.pc /= "raised"
    /\ \A i \in 1 .. Len(run.log) :
          (PoolWasFull(i) \/ WorkerDidNotStart(i) \/ NoReference(i)
              \/ ModuleNotImportable(i) \/ SymbolMissing(i) \/ FunctionRaised(i)) =>
             /\ i = Len(run.log)
             /\ run.pc = "failed"
             /\ ~run.result.success /\ ~run.result.raised
             /\ run.result.error.form = "raw"
             /\ run.result.task = run.tasks[i].name
             /\ DOMAIN run.result.context = DOMAIN run.dispatches[i].given

\* C16's case: the worker of a code task failed to start and the run has
\* returned.
C16_Witness ==
    /\ run.pc = "failed"
    /\ run.dispatches /= << >>
    /\ run.dispatches[Len(run.dispatches)].start_failed

\* C17: within one run the tasks execute one at a time in increasing order:
\* a task is dispatched only when every task before it has returned with
\* success and its result is folded into the context the task is given.
C17_OneTaskAtATimeInOrder ==
    /\ Len(run.dispatches) = Len(run.log)
    /\ \A i \in 1 .. Len(run.dispatches) :
          /\ run.dispatches[i].k = i
          /\ run.log[i].k = i
          /\ run.dispatches[i].given =
                IF i = 1 THEN run.init ELSE run.folded[i - 1]
          /\ i > 1 => run.log[i - 1].success

\* C17's case: a second task was dispatched on a context the first one had
\* changed.
C17_Witness ==
    /\ Len(run.dispatches) >= 2
    /\ run.dispatches[2].given /= run.init

\* The one task of the fold, and what its worker does and sends back.
FoldTask == [name |-> "task1", tool |-> CodeTool(fold.fn)]
FoldWorkerRuns == WorkerRuns(CodeTool(fold.fn), fold.ctx)
FoldOutput ==
    ExecuteCodeOn("k1", WorkerEvents(CodeTool(fold.fn), fold.ctx)).output

\* C11: when the submission of a code task ends in an error event of the
\* worker, the task's failure result has the text "<ename>: <evalue>" as
\* its error, whatever the exception is called, and names the task; when
\* it ends in a timeout, the error is "Execution timed out".
C11_FailureTextVerbatim ==
    fold.stage = "done" =>
       /\ ~FoldWorkerRuns.ok =>
             /\ ~fold.code.success
             /\ fold.code.task = FoldTask.name
             /\ fold.code.error =
                   Raw(FoldWorkerRuns.ename \o ": " \o FoldWorkerRuns.evalue)
       /\ AfterExecuteCode(FoldTask, Raw("Execution timed out"), fold.ctx) =
             TaskFailure(FoldTask, Raw("Execution timed out"), fold.ctx)

\* A returned text that is a literal: a dict display of literals.
IsLiteralText(t) ==
    t.form = "dict" /\ \A k \in DOMAIN t.items : TokenIsLiteral(t.items[k])

\* C20: a text returned for a code task that is no literal is never
\* evaluated and makes the task fail with a parse error.
C20_OnlyLiteralsAreParsed ==
    (fold.stage = "done" /\ FoldWorkerRuns.ok /\ FoldOutput /= NoneText
        /\ ~IsLiteralText(FoldOutput)) =>
       /\ ~fold.code.success
       /\ fold.code.error = Raw("Failed to parse output: invalid syntax")
       /\ fold.code.context = fold.ctx

RECURSIVE Concat(_)
Concat(output) ==
    IF output = << >> THEN "" ELSE Head(output).s \o Concat(Tail(output))
Accumulated(output) ==
    IF output = << >> THEN NoneText ELSE Raw(Concat(output))

\* C13: if the idle status of the submission arrives and no error event
\* did, execute_code returns the accumulation, in arrival order, of the
\* texts of all stream and result events of the submission.
C13_OutputIsAccumulation ==
    \A c \in Calls :
       (calls[c].op = "execute_code" /\ calls[c].pc = "done"
           /\ calls[c].exit = "idle" /\ calls[c].errors = {}) =>
          calls[c].ret.output = Accumulated(calls[c].output)

\* C18: start_kernel called on a registry of max_kernels entries returns
\* None, starts no worker and leaves the registry as it was; called on a
\* smaller registry it registers exactly one new entry, under the id it
\* returns.
C18_StartAtAndBelowCapacity ==
    [][ /\ (calls[1].pc = "idle" /\ calls'[1].op = "start_kernel" /\ PoolFull) =>
              /\ calls'[1].pc = "done"
              /\ calls'[1].ret.kernel_id = None
              /\ kernels' = kernels
              /\ procs' = procs
        /\ (calls[1].op = "start_kernel" /\ calls[1].pc = "start_await"
               /\ calls'[1].pc = "done") =>
              /\ calls'[1].ret.kernel_id \in KernelIds
              /\ calls'[1].ret.kernel_id \notin DOMAIN kernels
              /\ DOMAIN kernels' = DOMAIN kernels \cup {calls'[1].ret.kernel_id}
              /\ \A k \in DOMAIN kernels : kernels'[k] = kernels[k]
      ]_vars

\* C19: called one after the other, stop_kernel changes and raises nothing
\* for an unknown id; for a registered id it removes that id and no other
\* entry, so that a second call with the same id is one for an unknown id.
C19_StopIsIdempotent ==
    [][ /\ (calls[1].pc = "idle" /\ calls'[1].op = "stop_kernel"
               /\ calls'[1].pc /= "stop_await") =>
              /\ calls'[1].pc = "done"
              /\ kernels' = kernels
              /\ procs' = procs
        /\ (calls[1].op = "stop_kernel" /\ calls[1].pc = "stop_await") =>
              /\ calls'[1].pc = "done"
              /\ calls[1].kernel_id \in DOMAIN kernels
              /\ DOMAIN kernels' = DOMAIN kernels \ {calls[1].kernel_id}
              /\ \A k \in DOMAIN kernels' : kernels'[k] = kernels[k]
      ]_vars

\* C19's case: a registered kernel was stopped while others were registered.
C19_Witness ==
    /\ calls[1].op = "stop_kernel"
    /\ calls[1].pc = "done"
    /\ calls[1].exit = "removed"
    /\ kernels /= << >>

\* C21: when cleanup() has returned the kernels registry is empty, and
\* every worker that was registered when cleanup began has been stopped:
\* none of their processes is alive.
C21_CleanupEmptiesRegistry ==
    \A c \in Calls :
       (calls[c].op = "cleanup" /\ calls[c].pc = "done")
          => /\ kernels = << >>
             /\ \A id \in DOMAIN calls[c].began :
                   calls[c].began[id] \notin procs

\* A cleanup that found several workers registered has returned.
C21_Witness ==
    \E c \in Calls :
       /\ calls[c].op = "cleanup" /\ calls[c].pc = "done"
       /\ Cardinality(DOMAIN calls[c].began) >= 2

\* C22: a submission that ends in a timeout leaves its worker alone.  The
\* step that returns the timeout failure changes neither the registry nor
\* the set of live processes and names the worker it used; and a
\* registered worker leaves the registry, or loses its process, only in a
\* step in which the await of a stop_kernel (called directly or by
\* cleanup) for that id or that process completes.
C22_TimeoutLeavesWorkerAlone ==
    [][ /\ \A c \in Calls :
             (calls[c].pc = "poll" /\ calls'[c].pc = "done"
                 /\ calls'[c].exit = "timeout")
                => /\ kernels' = kernels
                   /\ procs' = procs
                   /\ calls'[c].ret.kernel_id = calls[c].kernel_id
                   /\ calls'[c].ret.output = Raw("Execution timed out")
        /\ \A id \in DOMAIN kernels :
             /\ id \notin DOMAIN kernels'
                   => \E c \in Calls : /\ calls[c].pc = "stop_await"
                                       /\ calls[c].kernel_id = id
             /\ (kernels[id] \in procs /\ kernels[id] \notin procs')
                   => \E c \in Calls : /\ calls[c].pc = "stop_await"
                                       /\ calls[c].km = kernels[id]
      ]_vars

\* A submission has returned the timeout failure and its worker is
\* registered and alive.
C22_Witness ==
    \E c \in Calls :
       /\ calls[c].op = "execute_code" /\ calls[c].pc = "done"
       /\ calls[c].exit = "timeout"
       /\ calls[c].ret.kernel_id \in DOMAIN kernels
       /\ kernels[calls[c].ret.kernel_id] \in procs

\* C23: for every successful run the key set of the returned context is a
\* superset of the key set of the initial context, and the context every
\* successful task returned has all the keys of the context the task was
\* given: folding adds or overwrites bindings and removes none.
C23_KeysAreKept ==
    /\ run.pc = "succeeded"
          => DOMAIN run.init \subseteq DOMAIN run.result.context
    /\ \A i \in 1 .. Len(run.folded) :
          DOMAIN run.dispatches[i].given \subseteq DOMAIN run.folded[i]

\* A run of several tasks succeeded on a non-empty initial context, and
\* its tasks added bindings.
C23_Witness ==
    /\ run.pc = "succeeded"
    /\ Len(run.tasks) >= 2
    /\ Len(run.folded) = Len(run.tasks)
    /\ DOMAIN run.init /= {}
    /\ DOMAIN run.result.context /= DOMAIN run.init

\* C25: if the formatter fails on the submitted source, execute_code sends
\* the original, unmodified source to the worker, as it does with
\* auto_format off: every submission that reached the worker with a source
\* black rejects, or with auto_format off, was sent its source unchanged.
C25_FormatFailureSendsOriginal ==
    \A c \in Calls :
       (/\ calls[c].op = "execute_code"
        /\ calls[c].pc \in {"poll", "done"}
        /\ calls[c].exit /= "full"
        /\ (~calls[c].auto_format \/ calls[c].code \notin DOMAIN BlackFormats))
          => calls[c].sent = calls[c].code

\* A submission with auto_format on whose source black rejects ran to its
\* idle status on the original source.
C25_Witness ==
    \E c \in Calls :
       /\ calls[c].op = "execute_code" /\ calls[c].pc = "done"
       /\ calls[c].exit = "idle"
       /\ calls[c].auto_format
       /\ calls[c].code \notin DOMAIN BlackFormats
       /\ calls[c].sent = calls[c].code

\* C26: two concurrent stop_kernel calls for the same registered id, or a
\* stop_kernel concurrent with cleanup, both complete without raising: no
\* stop_kernel and no cleanup ends in the KeyError of an entry that is
\* gone.
C26_ConcurrentStopsComplete ==
    \A c \in Calls :
       (calls[c].op \in {"stop_kernel", "cleanup"} /\ calls[c].pc = "raised")
          => calls[c].exit = "shutdown"

\* C27: no worker is lost: every worker process that was started and not
\* stopped is the process of some entry of the registry.
C27_NoWorkerLost ==
    \A p \in procs : \E id \in DOMAIN kernels : kernels[id] = p

\* C28: a malformed message is ignored and polling continues: no
\* submission is ended by a message that lacks its parent header.
C28_MalformedIsIgnored ==
    \A c \in Calls :
       calls[c].op = "execute_code" => calls[c].exit /= "malformed"

\* The texts of the messages of other submissions.
ForeignTexts == { Raw("late"), Raw("KeyboardInterrupt: ") }

\* C29: on a reused worker the outcome of a submission depends only on
\* events carrying its own correlation id: no text of another submission's
\* event is in its output, its error or its return value, and reading any
\* event of another submission leaves a polling submission as it is, still
\* polling.
C29_OnlyOwnEventsCount ==
    \A c \in Calls :
       calls[c].op = "execute_code"
          => /\ \A i \in 1 .. Len(calls[c].output) :
                   calls[c].output[i] \notin ForeignTexts
             /\ calls[c].error \notin ForeignTexts
             /\ calls[c].errors \cap ForeignTexts = {}
             /\ calls[c].ret.output \notin ForeignTexts
             /\ calls[c].pc = "poll"
                   => \A msg \in ForeignMsgs :
                         HandleMsg(calls[c], msg) =
                            [calls[c] EXCEPT !.foreign = TRUE]

\* A submission read events of another submission and ended with its own
\* idle status and its own output.
C29_Witness ==
    \E c \in Calls :
       /\ calls[c].op = "execute_code" /\ calls[c].pc = "done"
       /\ calls[c].exit = "idle"
       /\ calls[c].foreign
       /\ calls[c].output /= << >>

\* C30: an exception of the worker's channel, raised while the source is
\* sent or while polling, with whatever message, makes execute_code return
\* that message as its failure: no execute_code call ends in an exception
\* of the sending, and a call that left its loop by an exception returns
\* the message of that exception.
C30_ChannelExceptionIsFailure ==
    \A c \in Calls :
       calls[c].op = "execute_code"
          => /\ ~(calls[c].pc = "raised" /\ calls[c].exit = "send")
             /\ (calls[c].pc = "done" /\ calls[c].exit = "exception")
                   => calls[c].ret.output = calls[c].error

\* ------------------------------------------------- the stored workflows

\* Bounds of the store: the order values callers pass, the length of the
\* task lists they pass, the number of CONTAINS relationships one
\* workflow is followed up to, and the number of Task nodes.
MaxOrder == 2
MaxListLen == 2
MaxRels == 4
MaxTaskNodes == 3

\* The names callers give to workflows, tasks and tools.
WorkflowNames == {"w1"}
TaskNames == {"t1", "t2"}
ToolNames == {"tool1"}

\* The tool_name argument: a tool name, one no tool has, "" or None.
ToolArgs == ToolNames \cup {"no_such_tool", "", None}

\* The `tasks` argument: a list of {name, order}, or None.
TaskEntries == [name : TaskNames, order : 1 .. MaxOrder]
TaskLists == [given : {TRUE}, list : SeqsUpTo(TaskEntries, MaxListLen)]
NoTasks == [given |-> FALSE, list |-> << >>]

\* MATCH (task:Task {name: $name}): the Task nodes of that name.
TaskNodes(name) == { n \in DOMAIN store.tasks : store.tasks[n].name = name }

\* MATCH (task:Task {name: $name})-[:USES]->(tool:Tool)
TaskNodesWithTool(name) == { n \in TaskNodes(name) : store.tasks[n].uses /= {} }

\* (task)<-[:CONTAINS]-(): the Task nodes some workflow contains.
ContainedNodes ==
    UNION { { store.workflows[w].rels[i].node :
                i \in DOMAIN store.workflows[w].rels } :
            w \in DOMAIN store.workflows }

\* missing_tasks: the names in the list that no Task node has.
MissingTasks(list) ==
    { list[i].name : i \in { j \in DOMAIN list : TaskNodes(list[j].name) = {} } }

\* Whether a task list numbers its tasks 1..n, each order once.
Numbered(list) == { list[i].order : i \in DOMAIN list } = 1 .. Len(list)

\* A set of node ids as a list, least first.
RECURSIVE Ascending(_)
Ascending(S) ==
    IF S = {} THEN << >>
    ELSE LET least == CHOOSE n \in S : \A o \in S : n <= o
         IN  <<least>> \o Ascending(S \ {least})

\* UNWIND $tasks as task MATCH (t:Task {name: task.name}) CREATE ...: one
\* relationship for every entry of the list and every Task node of the
\* entry's name.
RECURSIVE Matched(_)
Matched(list) ==
    IF list = << >> THEN << >>
    ELSE LET nodes == Ascending(TaskNodes(Head(list).name))
         IN  [i \in DOMAIN nodes |->
                [name |-> Head(list).name, order |-> Head(list).order,
                 node |-> nodes[i]]]
             \o Matched(Tail(list))

\* These relationships, once for every row the query holds at that point.
RECURSIVE Unwound(_, _)
Unwound(rows, list) ==
    IF rows = 0 THEN << >> ELSE Matched(list) \o Unwound(rows - 1, list)

\* tool_name as a condition: None and "" are falsy.
ToolTruthy(tool_name) == tool_name \notin {None, ""}

\* create_tool(name, ...) of a name no Tool node has.
CreateTool(name) ==
    /\ name \notin store.tools
    /\ store' = [store EXCEPT !.tools = @ \cup {name}, !.reply = "created"]
    /\ UNCHANGED <<kernels, procs, calls, run, fold, executor, runs>>

\* create_task(name, description, tool_name): no Task node of that name
\* uses a tool, and the tool exists: a Task node is created that uses it.
CreateTask(name, tool_name) ==
    /\ TaskNodesWithTool(name) = {}
    /\ tool_name \in store.tools
    /\ Cardinality(DOMAIN store.tasks) < MaxTaskNodes
    /\ LET new == CHOOSE n \in 1 .. MaxTaskNodes :
                     /\ n \notin DOMAIN store.tasks
                     /\ \A o \in 1 .. MaxTaskNodes \ DOMAIN store.tasks : n <= o
       IN  store' = [store EXCEPT
              !.reply = "created",
              !.tasks = [n \in DOMAIN @ \cup {new} |->
                           IF n = new
                           THEN [name |-> name, uses |-> {tool_name}]
                           ELSE @[n]]]
    /\ UNCHANGED <<kernels, procs, calls, run, fold, executor, runs>>

\* update_task(name, description, tool_name) of an existing task, with a
\* tool_name that is falsy or names a tool.  With tool_name None the USES
\* relationship stays (the MATCH on task.tool_name finds nothing and
\* nothing is merged).  Else it is deleted, and the one to the tool named
\* is merged if a Tool node has that name.
UpdateTask(name, tool_name) ==
    /\ TaskNodes(name) /= {}
    /\ ToolTruthy(tool_name) => tool_name \in store.tools
    /\ store' = [store EXCEPT
          !.reply = "updated",
          !.tasks = [n \in DOMAIN @ |->
                       IF n \notin TaskNodes(name) \/ tool_name = None
                       THEN @[n]
                       ELSE [@[n] EXCEPT !.uses =
                               IF tool_name \in store.tools
                               THEN {tool_name} ELSE {}]]]
    /\ UNCHANGED <<kernels, procs, calls, run, fold, executor, runs>>

\* delete_task(task_name): the Task nodes of that name that no workflow
\* contains are deleted with their relationships.
DeleteTask(name) ==
    /\ LET gone == TaskNodes(name) \ ContainedNodes
       IN  store' = [store EXCEPT
              !.reply = IF gone /= {} THEN "deleted" ELSE "kept",
              !.tasks = [n \in DOMAIN @ \ gone |-> @[n]]]
    /\ UNCHANGED <<kernels, procs, calls, run, fold, executor, runs>>

\* create_workflow(name, description, tasks): an existing workflow is
\* returned as it is; a task without a Task node raises ValueError; else
\* the workflow is created with its CONTAINS relationships, each carrying
\* the order its entry names.
\*   rels: the CONTAINS relationships, each with its task and its order
\*   numbered: whether every task list given for the workflow so far
\*         numbered its tasks 1..n
CreateWorkflow(name, tasks) ==
    /\ name \notin DOMAIN store.workflows
    /\ MissingTasks(tasks.list) = {}
    /\ Len(Matched(tasks.list)) <= MaxRels
    /\ store' = [store EXCEPT
          !.reply = "created",
          !.workflows =
             [w \in DOMAIN @ \cup {name} |->
                IF w = name
                THEN [rels |-> Matched(tasks.list),
                      numbered |-> Numbered(tasks.list)]
                ELSE @[w]]]
    /\ UNCHANGED <<kernels, procs, calls, run, fold, executor, runs>>

\* A call that returns without a change of what is stored: create_tool,
\* create_task and create_workflow of an existing name return what is
\* there; update_task and update_workflow of a name that is not stored
\* raise ValueError, and so does a call that names a tool or a task that
\* is not stored.
StoreCallRefused(op, name, tool_name, tasks) ==
    /\ \/ /\ op = "create_tool" /\ name \in store.tools
          /\ store' = [store EXCEPT !.reply = "existing"]
       \/ /\ op = "create_task" /\ TaskNodesWithTool(name) /= {}
          /\ store' = [store EXCEPT !.reply = "existing"]
       \/ /\ op = "create_task" /\ TaskNodesWithTool(name) = {}
          /\ tool_name \notin store.tools
          /\ store' = [store EXCEPT !.reply = "ValueError"]
       \/ /\ op = "update_task"
          /\ \/ TaskNodes(name) = {}
             \/ ToolTruthy(tool_name) /\ tool_name \notin store.tools
          /\ store' = [store EXCEPT !.reply = "ValueError"]
       \/ /\ op = "create_workflow" /\ name \in DOMAIN store.workflows
          /\ store' = [store EXCEPT !.reply = "existing"]
       \/ /\ op = "create_workflow" /\ name \notin DOMAIN store.workflows
          /\ MissingTasks(tasks.list) /= {}
          /\ store' = [store EXCEPT !.reply = "ValueError"]
       \/ /\ op = "update_workflow"
          /\ \/ name \notin DOMAIN store.workflows
             \/ MissingTasks(tasks.list) /= {}
          /\ store' = [store EXCEPT !.reply = "ValueError"]
    /\ UNCHANGED <<kernels, procs, calls, run, fold, executor, runs>>

\* update_workflow(name, description, tasks) of a stored workflow whose
\* tasks all exist.  With tasks None the relationships stay.  Else every
\* relationship is deleted; OPTIONAL MATCH left one row for each of them
\* (one row when there was none), WITH w keeps these rows, and the UNWIND
\* creates the relationships of the list once per row.
UpdateWorkflow(name, tasks) ==
    /\ name \in DOMAIN store.workflows
    /\ MissingTasks(tasks.list) = {}
    /\ LET old == store.workflows[name].rels
           rows == IF old = << >> THEN 1 ELSE Len(old)
       IN  /\ rows * Len(Matched(tasks.list)) <= MaxRels
           /\ store' = [store EXCEPT
                 !.reply = "updated",
                 !.workflows[name] =
                    IF ~tasks.given THEN @
                    ELSE [rels |-> Unwound(rows, tasks.list),
                          numbered |-> @.numbered /\ Numbered(tasks.list)]]
    /\ UNCHANGED <<kernels, procs, calls, run, fold, executor, runs>>

StoreNext ==
    \/ \E name \in ToolNames : CreateTool(name)
    \/ \E name \in TaskNames, tool_name \in ToolNames :
          CreateTask(name, tool_name)
    \/ \E name \in TaskNames, tool_name \in ToolArgs :
          UpdateTask(name, tool_name)
    \/ \E name \in TaskNames : DeleteTask(name)
    \/ \E name \in WorkflowNames, tasks \in TaskLists :
          CreateWorkflow(name, tasks)
    \/ \E name \in WorkflowNames, tasks \in TaskLists \cup {NoTasks} :
          UpdateWorkflow(name, tasks)
    \/ \E op \in {"create_tool", "create_task", "update_task"},
          name \in ToolNames \cup TaskNames, tool_name \in ToolArgs :
          StoreCallRefused(op, name, tool_name, NoTasks)
    \/ \E op \in {"create_workflow", "update_workflow"},
          name \in WorkflowNames, tasks \in TaskLists :
          StoreCallRefused(op, name, None, tasks)

\* Callers creating and updating tools, tasks and workflows, one call
\* after the other.
SpecStore == Init /\ [][StoreNext]_vars

\* C24: after any sequence of create_workflow and update_workflow calls
\* the order values on the tasks of each stored workflow are pairwise
\* distinct and form the run 1..n; checked for the workflows whose task
\* lists were all given with the orders 1..n.
C24_OrdersAreContiguous ==
    \A w \in DOMAIN store.workflows :
       LET rels == store.workflows[w].rels
       IN  store.workflows[w].numbered
              => { rels[i].order : i \in DOMAIN rels } = 1 .. Len(rels)

\* What the function of the fold returns on the arguments the convention
\* binds.
FoldCall == Call(fold.fn, FoldArgs)

\* C31: folding changes only what the result names, on either path: a tool
\* function that returns nothing leaves the context as it was, and one
\* that returns a mapping m leaves the task successful with every key of m
\* bound to m's value and every other key at its previous value.
C31_FoldChangesOnlyWhatIsNamed ==
    (fold.stage = "done" /\ FoldInputsPresent /\ FoldCall.ok
        /\ FoldCall.kind \in {"none", "dict"}) =>
       \A res \in {fold.code, fold.imported} :
          /\ res.success
          /\ res.context = Update(fold.ctx, FoldCall.dict)

\* C33: a code task whose submission ended with its idle status and no
\* error event, and whose result text is a literal, is reported as a
\* success, also when that text contains "Error:" or "Exception:": it is
\* parsed and folded.
C33_MarkedResultIsSuccess ==
    (fold.stage = "done" /\ FoldWorkerRuns.ok /\ FoldOutput /= NoneText
        /\ IsLiteralText(FoldOutput)) =>
       /\ fold.code.success
       /\ fold.code.context = Update(fold.ctx, FoldWorkerRuns.dict)

\* C34: the pool stays usable after a cleanup: no start_kernel and no
\* execute_code fails because the thread pool was shut down.
C34_UsableAfterCleanup ==
    \A c \in Calls :
       calls[c].op \in {"start_kernel", "execute_code"}
          => ~(calls[c].pc = "raised" /\ calls[c].exit = "shutdown")

\* C35: after any sequence of create_tool, create_task, update_task,
\* create_workflow, update_workflow and delete_task calls every stored
\* Task uses exactly one Tool, which exists, and every task a stored
\* workflow contains is a stored Task (so delete_task removed no task a
\* workflow contains).
C35_ReferencesAreKept ==
    /\ \A n \in DOMAIN store.tasks :
          /\ Cardinality(store.tasks[n].uses) = 1
          /\ store.tasks[n].uses \subseteq store.tools
    /\ ContainedNodes \subseteq DOMAIN store.tasks

\* ------------------------------------------------- runs side by side

\* The length of the workflows that run side by side.
PairMaxTasks == 2

\* Their tools and their workflows.
PairTools == {add_code, log_code, add_imported, multiply_imported}
PairWorkflows == SeqsUpTo(PairTools, PairMaxTasks)

\* A run starts on its own context mapping.
StartOne(r) ==
    /\ runs[r].pc = "ready"
    /\ \E tools \in PairWorkflows, ctx0 \in RunContexts :
          runs' = [runs EXCEPT ![r] =
             [k \in DOMAIN ReadyOne |->
                IF k \in DOMAIN ReadyRun THEN Started(tools, ctx0)[k]
                ELSE ReadyOne[k]]]
    /\ UNCHANGED <<kernels, procs, calls, run, fold, executor, store>>

\* execute_code has returned: the run is in its loop again and holds no
\* worker.
Released(one) ==
    [one EXCEPT !.pc = "running", !.kernel_id = None, !.km = 0,
                !.sent = << >>]

\* One turn of the loop up to the first await: a task on the import path
\* runs through, there is nothing to wait for; for a code task
\* start_kernel() returns None when the pool is full, else it is awaited.
DispatchOne(r) ==
    /\ runs[r].pc = "running"
    /\ LET one == runs[r]
           task == one.tasks[one.k]
       IN  IF ~TakesCodePath(task.tool)
           THEN runs' = [runs EXCEPT ![r] =
                   AfterTask(one, ExecuteTaskByImport(task, task.tool, one.ctx))]
           ELSE IF PoolFull
           THEN runs' = [runs EXCEPT ![r] =
                   AfterTask([one EXCEPT !.full = TRUE],
                             ExecuteTaskByCode(task, task.tool, one.ctx,
                                               kernels, None))]
           ELSE /\ FreshIds /= {} /\ FreshProcs /= {}
                /\ runs' = [runs EXCEPT ![r] =
                      [one EXCEPT !.pc = "starting",
                                  !.kernel_id = LeastFreshId,
                                  !.km = LeastFreshProc]]
    /\ UNCHANGED <<kernels, procs, calls, run, fold, executor, store>>

\* A faulty variant of SentContext: the manager keeps one context for all
\* its runs, that of the run that started first.
SentContextOfFirstRun(r) ==
    IF runs[1].pc = "ready" THEN runs[r].ctx ELSE runs[1].ctx

\* context = {context_variables}: the mapping of the run itself is
\* written into the code.
SentContext(r) == runs[r].ctx

\* The await of start_kernel completes: the worker is registered, the code
\* is built around the context and submitted to that worker.
StartedOne(r) ==
    /\ runs[r].pc = "starting"
    /\ procs' = procs \cup {runs[r].km}
    /\ kernels' = Register(kernels, runs[r].kernel_id, runs[r].km)
    /\ runs' = [runs EXCEPT ![r] =
          [@ EXCEPT !.pc = "polling", !.sent = SentContext(r)]]
    /\ UNCHANGED <<calls, run, fold, executor, store>>

\* The worker has run the code and execute_code returns: the output is
\* parsed and folded into the run's context, and the loop goes on.
PolledOne(r) ==
    /\ runs[r].pc = "polling"
    /\ LET one == runs[r]
           task == one.tasks[one.k]
           output == ExecuteCodeOn(one.kernel_id,
                                   WorkerEvents(task.tool, one.sent)).output
       IN  runs' = [runs EXCEPT ![r] =
              AfterTask(Released(one), AfterExecuteCode(task, output, one.ctx))]
    /\ UNCHANGED <<kernels, procs, calls, run, fold, executor, store>>

\* The caller of the run has its result.
ReturnOne(r) ==
    /\ runs[r].pc \in {"succeeded", "failed"}
    /\ runs' = [runs EXCEPT ![r] = ReadyOne]
    /\ UNCHANGED <<kernels, procs, calls, run, fold, executor, store>>

PairNext ==
    \E r \in Runs :
       \/ StartOne(r)
       \/ DispatchOne(r)
       \/ StartedOne(r)
       \/ PolledOne(r)
       \/ ReturnOne(r)

\* Two callers running workflows on one pool, their runs interleaved at
\* the awaits.
SpecPair == Init /\ [][PairNext]_vars

\* execute_workflow of these tasks from task k on, alone on a pool with
\* room.
RECURSIVE AloneFrom(_, _, _)
AloneFrom(tasks, k, ctx) ==
    IF k > Len(tasks) THEN TaskSuccess(ctx)
    ELSE LET res == ExecuteTask(tasks[k], ctx, << >>, "k1")
         IN  IF res.success THEN AloneFrom(tasks, k + 1, res.context)
             ELSE res

\* C32: two workflow runs that execute concurrently on the same pool, each
\* on its own context mapping, do not observe each other's context: the
\* result of a run that never found the pool full is the result the same
\* workflow returns on the same context when it runs alone.
C32_RunsDoNotInterfere ==
    \A r \in Runs :
       (runs[r].pc \in {"succeeded", "failed"} /\ ~runs[r].full)
          => runs[r].result = AloneFrom(runs[r].tasks, 1, runs[r].init)

\* A run with a code task has ended on a context of its own while another
\* run, started on a different context, waits for the worker of its code
\* task.
C32_Witness ==
    \E r, o \in Runs :
       /\ runs[r].pc = "succeeded" /\ ~runs[r].full
       /\ \E i \in DOMAIN runs[r].tasks : TakesCodePath(runs[r].tasks[i].tool)
       /\ runs[r].result.context /= runs[r].init
       /\ runs[o].pc = "polling"
       /\ runs[o].init /= runs[r].init
       /\ runs[o].k = 2
====
